---- MODULE Spec2Model ----
(***************************************************************************)
(* ThermostatOverValve (custom_components/versatile_thermostat/            *)
(* thermostat_valve.py): the valve regulation pass `recalculate`, the      *)
(* `valve_open_percent` read accessor, the attributes published by         *)
(* `update_custom_attributes` and the counter of `incremente_energy`.      *)
(*                                                                         *)
(* Units.  Python floats are modelled by exact integers:                   *)
(*   - a duty fraction (on_percent, calculated_on_percent) is counted in   *)
(*     1/200ths, so that on_percent * 100 is a whole number of             *)
(*     half-percents and round() meets its half-way cases;                 *)
(*   - _auto_regulation_dpercent (a float number of percents) is counted   *)
(*     in half-percents;                                                   *)
(*   - timestamps are seconds; _auto_regulation_period_min is minutes;     *)
(*   - energy (power * cycle_min / 60) is counted in watt-minutes, 1/60 of *)
(*     the source's unit, so that the division by 60 is exact.             *)
(***************************************************************************)
EXTENDS Integers, FiniteSets, Sequences, TLC

VARIABLES
    _hvac_mode,                   \* BaseThermostat._hvac_mode
    _valve_open_percent,          \* the committed percent (int)
    _last_calculation_timestamp,  \* None or Some(seconds)
    _auto_regulation_dpercent,    \* half-percents, fixed by post_init
    _auto_regulation_period_min,  \* minutes, fixed by post_init
    now,                          \* self.now, seconds
    _target_temp,
    _cur_temp,
    _cur_ext_temp,
    _prop_algorithm,              \* the PropAlgorithm outputs
    _attr_extra_state_attributes, \* what update_custom_attributes published
    _total_energy,                \* None or Some(watt-minutes)
    mean_cycle_power,             \* power_manager's: None or Some(watts)
    energy_history,               \* what the counter has been through
    outcome                       \* the return path of the last operation

vars ==
    << _hvac_mode, _valve_open_percent, _last_calculation_timestamp,
       _auto_regulation_dpercent, _auto_regulation_period_min, now,
       _target_temp, _cur_temp, _cur_ext_temp, _prop_algorithm,
       _attr_extra_state_attributes, _total_energy, mean_cycle_power,
       energy_history,
       outcome >>

\* Python's None for an optional number, and Some(v) for a number v
None == << >>

Some(v) == << v >>

\* _hvac_mode before the platform sets a mode (Python's None)
HVACMode_None == "None"

HVACMode_OFF == "off"

HVACMode_HEAT == "heat"

HVACMode_COOL == "cool"

\* the values _hvac_mode takes; None until the platform sets one
HvacModes == {HVACMode_None, HVACMode_OFF, HVACMode_HEAT, HVACMode_COOL}

-----------------------------------------------------------------------------
(* Numbers of the source *)

\* round(... * 100): percents in a duty fraction of 1
PercentScale == 100

\* total_seconds() / 60
SecondsPerMinute == 60

\* a duty fraction of 1, in 1/200ths
One == 2 * PercentScale

-----------------------------------------------------------------------------
(* Bounds of the model *)

\* the clock takes the values 0, TimeStep, ..., MaxNow * TimeStep seconds
MaxNow == 3

\* seconds between two clock values: half a minute
TimeStep == SecondsPerMinute \div 2

Times == {k * TimeStep : k \in 0..MaxNow}

\* configurations (dpercent in half-percents, period in minutes)
DPercents == {0, 5, 10}

PeriodMins == {0, 1}

TargetTemps == {20, 30}

CurTemps == {None} \cup {Some(v) : v \in {-250, 10, 15, 60}}

\* no exterior sensor
ExtTemps == {None}

\* duty fractions (1/200ths) an arbitrary strategy may output: below 0,
\* the half-way cases of round(), 35 % to 46 % around 40 %, 1 and above 1
AnyOnPercents ==
    {-40, 0, 1, 3, 5, 9, 10, 11} \cup {2 * p : p \in 35..46} \cup {One, 260}

\* the mean power of a cycle, watts: unknown, none, or a 1000 W heater
MeanCyclePowers == {None, Some(0), Some(1000)}

\* a total that the platform restored from the previous run, watt-minutes
RestoredEnergies == {None, Some(4000)}

\* incremente_energy is not followed past MaxTicks cycles outside OFF
MaxTicks == 2

Max(a, b) == IF a >= b THEN a ELSE b

Min(a, b) == IF a <= b THEN a ELSE b

-----------------------------------------------------------------------------
(* PropAlgorithm (prop_algorithm.py): the TPI strategy as the specification *)
(* states its contract.                                                     *)

\* interior gain: 1/200 of duty per degree of deviation
tpi_coef_int == 1

\* exterior gain
tpi_coef_ext == 1

\* the control cycle, minutes
cycle_min == 10

\* the cap on on_percent: a duty fraction of 1
max_on_percent == One


\* the outputs of a PropAlgorithm that has not calculated yet
PropAlgorithmInit ==
    [ on_percent |-> 0, calculated_on_percent |-> 0,
      on_time_sec |-> 0, off_time_sec |-> cycle_min * SecondsPerMinute ]

\* PropAlgorithm.calculate(target_temp, current_temp, ext_current_temp, hvac_mode)
calculate(target_temp, current_temp, ext_current_temp, hvac_mode) ==
    LET delta_temp ==
            IF hvac_mode = HVACMode_COOL
            THEN current_temp[1] - target_temp
            ELSE target_temp - current_temp[1]
        delta_ext_temp ==
            IF ext_current_temp = None THEN 0
            ELSE IF hvac_mode = HVACMode_COOL
                 THEN ext_current_temp[1] - target_temp
                 ELSE target_temp - ext_current_temp[1]
        raw ==
            IF hvac_mode = HVACMode_OFF \/ current_temp = None THEN 0
            ELSE tpi_coef_int * delta_temp + tpi_coef_ext * delta_ext_temp
        calculated == Max(0, Min(raw, One))
        on_percent == Min(calculated, max_on_percent)
        on_time == (cycle_min * SecondsPerMinute * on_percent) \div One
    IN  [ on_percent |-> on_percent,
          calculated_on_percent |-> calculated,
          on_time_sec |-> on_time,
          off_time_sec |-> cycle_min * SecondsPerMinute - on_time ]

-----------------------------------------------------------------------------
(* ThermostatOverValve *)

\* a valve_open_percent that forgets the OFF mode
valve_open_percent_ignores_off(hvac_mode, committed) == committed

\* the property valve_open_percent
valve_open_percent(hvac_mode, committed) ==
    IF hvac_mode = HVACMode_OFF THEN 0 ELSE committed

\* a round() that takes the half-way cases up
round_half_up(h) == (h + 1) \div 2

\* Python's round() of h half-units (h >= 0): to the nearest, ties to even
round(h) ==
    LET lo == h \div 2
    IN  IF h % 2 = 0 THEN lo
        ELSE IF lo % 2 = 0 THEN lo ELSE lo + 1

\* round(on_percent * 100), the clamp to [0, 1] forgotten
new_valve_percent_unclamped(on_percent) ==
    IF on_percent >= 0
    THEN round((on_percent * PercentScale * 2) \div One)
    ELSE -1 * round((-1 * on_percent * PercentScale * 2) \div One)

\* round(max(0, min(on_percent, 1)) * 100)
new_valve_percent(on_percent) ==
    round((Max(0, Min(on_percent, One)) * PercentScale * 2) \div One)

\* a forcing that closes only below half the threshold
forced_below_half(percent, dpercent) ==
    IF 4 * percent < dpercent THEN 0 ELSE percent

\* no forcing: the candidate goes to the dead-band as it is
forced_never(percent, dpercent) == percent

\* Issue 533: a candidate below the threshold closes the valve
forced(percent, dpercent) ==
    IF 2 * percent < dpercent THEN 0 ELSE percent

\* no time check at all
too_soon_never(last, t, period_min) == FALSE

\* an unset timestamp read as time 0
too_soon_from_epoch(last, t, period_min) ==
    (t - (IF last = None THEN 0 ELSE last[1])) < period_min * SecondsPerMinute

\* period <= self._auto_regulation_period_min: off by one
too_soon_inclusive(last, t, period_min) ==
    /\ last # None
    /\ (t - last[1]) <= period_min * SecondsPerMinute

\* period < self._auto_regulation_period_min, with period in minutes
too_soon(last, t, period_min) ==
    /\ last # None
    /\ (t - last[1]) < period_min * SecondsPerMinute

\* a band that also holds back a candidate of 0
in_dead_band_also_closing(candidate, opened, dpercent) ==
    /\ -1 * dpercent <= 2 * (candidate - opened)
    /\ 2 * (candidate - opened) < dpercent

\* a symmetric band: -dpercent <= new - valve_open_percent <= dpercent
in_dead_band_symmetric(candidate, opened, dpercent) ==
    /\ candidate > 0
    /\ -1 * dpercent <= 2 * (candidate - opened)
    /\ 2 * (candidate - opened) <= dpercent

\* new_valve_percent > 0 and -dpercent <= new - valve_open_percent < dpercent
in_dead_band(candidate, opened, dpercent) ==
    /\ candidate > 0
    /\ -1 * dpercent <= 2 * (candidate - opened)
    /\ 2 * (candidate - opened) < dpercent

\* a recalculate without its "no change" return
decide_without_no_change(on_percent, hvac_mode, committed, dpercent) ==
    LET candidate == forced(new_valve_percent(on_percent), dpercent)
    IN  IF in_dead_band(candidate,
                        valve_open_percent(hvac_mode, committed), dpercent)
        THEN "dead_band"
        ELSE "accepted"

\* the return path of recalculate once the algorithm has given on_percent
decide(on_percent, hvac_mode, committed, dpercent) ==
    LET candidate == forced(new_valve_percent(on_percent), dpercent)
    IN  IF in_dead_band(candidate,
                        valve_open_percent(hvac_mode, committed), dpercent)
        THEN "dead_band"
        ELSE IF committed = candidate THEN "no_change"
        ELSE "accepted"

\* update_custom_attributes: the attributes that depend on the state
published(hvac_mode, committed, last, algo) ==
    [ valve_open_percent |-> valve_open_percent(hvac_mode, committed),
      on_percent |-> algo.on_percent,
      last_calculation_timestamp |-> last ]

-----------------------------------------------------------------------------
(* The state machine *)

\* __init__ and post_init: closed valve, no timestamp, thresholds from the
\* configuration (0 when the configuration gives none)
InitValve ==
    /\ _hvac_mode = HVACMode_None
    /\ _valve_open_percent = 0
    /\ _last_calculation_timestamp = None
    /\ _auto_regulation_dpercent \in DPercents
    /\ _auto_regulation_period_min \in PeriodMins
    /\ now \in Times
    /\ _target_temp \in TargetTemps
    /\ _cur_temp \in CurTemps
    /\ _cur_ext_temp \in ExtTemps
    /\ _prop_algorithm = PropAlgorithmInit
    /\ _attr_extra_state_attributes = None
    /\ outcome = "none"

\* the counter at construction: the total it starts from, the power not
\* changed yet, no cycle counted yet
EnergyHistoryInit(total) == [ restored |-> total, steady |-> TRUE, ticks |-> 0 ]

\* no total restored, no power measured
Init ==
    /\ InitValve
    /\ _total_energy = None
    /\ mean_cycle_power = None
    /\ energy_history = EnergyHistoryInit(None)

\* a recalculate that writes the accessor's value back before it returns
\* as too soon
recalculate_writes_back(s, algo) ==
    IF too_soon(s.last, s.now, s.period_min)
    THEN [ outcome |-> "too_soon",
           committed |-> valve_open_percent(s.mode, s.committed),
           last |-> s.last, algo |-> s.algo, attrs |-> s.attrs ]
    ELSE LET path == decide(algo.on_percent, s.mode, s.committed, s.dpercent)
             candidate == forced(new_valve_percent(algo.on_percent), s.dpercent)
         IN  IF path = "accepted"
             THEN [ outcome |-> path, committed |-> candidate,
                    last |-> Some(s.now), algo |-> algo,
                    attrs |-> Some(published(s.mode, candidate,
                                             Some(s.now), algo)) ]
             ELSE [ outcome |-> path, committed |-> s.committed,
                    last |-> s.last, algo |-> algo, attrs |-> s.attrs ]

\* a recalculate that commits dpercent, the change, in place of the new
\* percent
recalculate_commits_delta(s, algo) ==
    IF too_soon(s.last, s.now, s.period_min)
    THEN [ outcome |-> "too_soon", committed |-> s.committed,
           last |-> s.last, algo |-> s.algo, attrs |-> s.attrs ]
    ELSE LET path == decide(algo.on_percent, s.mode, s.committed, s.dpercent)
             candidate == forced(new_valve_percent(algo.on_percent), s.dpercent)
         IN  IF path = "accepted"
             THEN [ outcome |-> path,
                    committed |->
                        candidate - valve_open_percent(s.mode, s.committed),
                    last |-> Some(s.now), algo |-> algo,
                    attrs |-> Some(published(
                        s.mode,
                        candidate - valve_open_percent(s.mode, s.committed),
                        Some(s.now), algo)) ]
             ELSE [ outcome |-> path, committed |-> s.committed,
                    last |-> s.last, algo |-> algo, attrs |-> s.attrs ]

\* a recalculate that sets the timestamp before the no-change return
recalculate_stamps_early(s, algo) ==
    IF too_soon(s.last, s.now, s.period_min)
    THEN [ outcome |-> "too_soon", committed |-> s.committed,
           last |-> s.last, algo |-> s.algo, attrs |-> s.attrs ]
    ELSE LET path == decide(algo.on_percent, s.mode, s.committed, s.dpercent)
             candidate == forced(new_valve_percent(algo.on_percent), s.dpercent)
         IN  IF path = "accepted"
             THEN [ outcome |-> path, committed |-> candidate,
                    last |-> Some(s.now), algo |-> algo,
                    attrs |-> Some(published(s.mode, candidate,
                                             Some(s.now), algo)) ]
             ELSE [ outcome |-> path, committed |-> s.committed,
                    last |-> IF path = "no_change" THEN Some(s.now)
                             ELSE s.last,
                    algo |-> algo, attrs |-> s.attrs ]

\* a recalculate that runs the algorithm before its time check
recalculate_calculates_first(s, algo) ==
    IF too_soon(s.last, s.now, s.period_min)
    THEN [ outcome |-> "too_soon", committed |-> s.committed,
           last |-> s.last, algo |-> algo, attrs |-> s.attrs ]
    ELSE LET path == decide(algo.on_percent, s.mode, s.committed, s.dpercent)
             candidate == forced(new_valve_percent(algo.on_percent), s.dpercent)
         IN  IF path = "accepted"
             THEN [ outcome |-> path, committed |-> candidate,
                    last |-> Some(s.now), algo |-> algo,
                    attrs |-> Some(published(s.mode, candidate,
                                             Some(s.now), algo)) ]
             ELSE [ outcome |-> path, committed |-> s.committed,
                    last |-> s.last, algo |-> algo, attrs |-> s.attrs ]

\* a recalculate that commits without setting the timestamp
recalculate_forgets_stamp(s, algo) ==
    IF too_soon(s.last, s.now, s.period_min)
    THEN [ outcome |-> "too_soon", committed |-> s.committed,
           last |-> s.last, algo |-> s.algo, attrs |-> s.attrs ]
    ELSE LET path == decide(algo.on_percent, s.mode, s.committed, s.dpercent)
             candidate == forced(new_valve_percent(algo.on_percent), s.dpercent)
         IN  IF path = "accepted"
             THEN [ outcome |-> path, committed |-> candidate,
                    last |-> s.last, algo |-> algo,
                    attrs |-> Some(published(s.mode, candidate,
                                             s.last, algo)) ]
             ELSE [ outcome |-> path, committed |-> s.committed,
                    last |-> s.last, algo |-> algo, attrs |-> s.attrs ]

\* the body of recalculate from the state s, with the algorithm output algo
\* (read only when the call is not too soon)
recalculate(s, algo) ==
    IF too_soon(s.last, s.now, s.period_min)
    THEN [ outcome |-> "too_soon", committed |-> s.committed,
           last |-> s.last, algo |-> s.algo, attrs |-> s.attrs ]
    ELSE LET path == decide(algo.on_percent, s.mode, s.committed, s.dpercent)
             candidate == forced(new_valve_percent(algo.on_percent), s.dpercent)
         IN  IF path = "accepted"
             THEN [ outcome |-> path, committed |-> candidate,
                    last |-> Some(s.now), algo |-> algo,
                    attrs |-> Some(published(s.mode, candidate,
                                             Some(s.now), algo)) ]
             ELSE [ outcome |-> path, committed |-> s.committed,
                    last |-> s.last, algo |-> algo, attrs |-> s.attrs ]

\* the return paths of recalculate
RecalculateOutcomes == {"too_soon", "dead_band", "no_change", "accepted"}

\* the fields recalculate reads
State ==
    [ mode |-> _hvac_mode, committed |-> _valve_open_percent,
      last |-> _last_calculation_timestamp, now |-> now,
      dpercent |-> _auto_regulation_dpercent,
      period_min |-> _auto_regulation_period_min,
      algo |-> _prop_algorithm, attrs |-> _attr_extra_state_attributes ]

\* self._hvac_mode or HVACMode.OFF
mode_or_off(hvac_mode) ==
    IF hvac_mode = HVACMode_None THEN HVACMode_OFF ELSE hvac_mode

Recalculate ==
    LET r == recalculate(State,
                         calculate(_target_temp, _cur_temp, _cur_ext_temp,
                                   mode_or_off(_hvac_mode)))
    IN  /\ _valve_open_percent' = r.committed
        /\ _last_calculation_timestamp' = r.last
        /\ _prop_algorithm' = r.algo
        /\ _attr_extra_state_attributes' = r.attrs
        /\ outcome' = r.outcome
        /\ UNCHANGED << _hvac_mode, _auto_regulation_dpercent,
                        _auto_regulation_period_min, now, _target_temp,
                        _cur_temp, _cur_ext_temp, _total_energy,
                        mean_cycle_power, energy_history >>

\* the platform sets the operating mode
SetHvacMode ==
    /\ \E m \in HvacModes \ {HVACMode_None, _hvac_mode} : _hvac_mode' = m
    /\ outcome' = "none"
    /\ UNCHANGED << _valve_open_percent, _last_calculation_timestamp,
                    _auto_regulation_dpercent, _auto_regulation_period_min,
                    now, _target_temp, _cur_temp, _cur_ext_temp,
                    _prop_algorithm, _attr_extra_state_attributes,
                    _total_energy, mean_cycle_power, energy_history >>

\* self.now: the clock, or the value _set_now() gave it
SetNow ==
    /\ \E t \in Times \ {now} : now' = t
    /\ outcome' = "none"
    /\ UNCHANGED << _hvac_mode, _valve_open_percent,
                    _last_calculation_timestamp, _auto_regulation_dpercent,
                    _auto_regulation_period_min, _target_temp, _cur_temp,
                    _cur_ext_temp, _prop_algorithm,
                    _attr_extra_state_attributes, _total_energy,
                    mean_cycle_power, energy_history >>

\* a sensor reading or a setpoint change arrives
SetTemperatures ==
    /\ \E t \in TargetTemps, c \in CurTemps, e \in ExtTemps :
          /\ << t, c, e >> # << _target_temp, _cur_temp, _cur_ext_temp >>
          /\ _target_temp' = t
          /\ _cur_temp' = c
          /\ _cur_ext_temp' = e
    /\ outcome' = "none"
    /\ UNCHANGED << _hvac_mode, _valve_open_percent,
                    _last_calculation_timestamp, _auto_regulation_dpercent,
                    _auto_regulation_period_min, now, _prop_algorithm,
                    _attr_extra_state_attributes, _total_energy,
                    mean_cycle_power, energy_history >>

\* BaseThermostat.is_over_climate: not a thermostat over a climate
is_over_climate == FALSE

\* added_energy of incremente_energy, in watt-minutes
added_energy(power) ==
    IF ~is_over_climate /\ power # None THEN power[1] * cycle_min ELSE 0

\* a tick that sets the total to the energy of its cycle whatever it was
accumulated_overwrites(total, added) == Some(added)

\* a tick that counts its cycle only when no total is there yet
accumulated_only_when_unset(total, added) ==
    IF total = None THEN Some(added) ELSE total

\* self._total_energy after the tick's if / else
accumulated(total, added) ==
    IF total = None THEN Some(added) ELSE Some(total[1] + added)

\* a counter that counts in every mode
returns_at_once_never(mode) == FALSE

\* the first test of incremente_energy: the device is off
returns_at_once(mode) == mode = HVACMode_OFF

\* the return paths of incremente_energy
EnergyOutcomes == {"energy_off", "energy_added"}

\* incremente_energy: nothing in the OFF mode; otherwise the energy of the
\* cycle is added and the attributes are published
IncrementeEnergy ==
    /\ IF returns_at_once(_hvac_mode)
       THEN /\ outcome' = "energy_off"
            /\ UNCHANGED << _total_energy, _attr_extra_state_attributes,
                            energy_history >>
       ELSE /\ energy_history.ticks < MaxTicks
            /\ outcome' = "energy_added"
            /\ _total_energy' =
                   accumulated(_total_energy, added_energy(mean_cycle_power))
            /\ _attr_extra_state_attributes' =
                   Some(published(_hvac_mode, _valve_open_percent,
                                  _last_calculation_timestamp,
                                  _prop_algorithm))
            /\ energy_history' =
                   [ energy_history EXCEPT !.ticks = energy_history.ticks + 1 ]
    /\ UNCHANGED << _hvac_mode, _valve_open_percent,
                    _last_calculation_timestamp, _auto_regulation_dpercent,
                    _auto_regulation_period_min, now, _target_temp,
                    _cur_temp, _cur_ext_temp, _prop_algorithm,
                    mean_cycle_power >>

Next ==
    \/ Recalculate
    \/ SetHvacMode
    \/ SetNow
    \/ SetTemperatures
    \/ IncrementeEnergy

Spec == Init /\ [][Next]_vars

-----------------------------------------------------------------------------
(* The same thermostat over an arbitrary proportional strategy: the          *)
(* algorithm may output a duty fraction of any magnitude, in any mode.       *)

\* the outputs of a strategy that gives on_percent
any_outputs(on_percent) ==
    [ on_percent |-> on_percent,
      calculated_on_percent |-> on_percent,
      on_time_sec |->
          (cycle_min * SecondsPerMinute * Max(0, Min(on_percent, One)))
              \div One,
      off_time_sec |->
          cycle_min * SecondsPerMinute
              - (cycle_min * SecondsPerMinute * Max(0, Min(on_percent, One)))
                    \div One ]

RecalculateAny ==
    \E on_percent \in AnyOnPercents :
        LET r == recalculate(State, any_outputs(on_percent))
        IN  /\ _valve_open_percent' = r.committed
            /\ _last_calculation_timestamp' = r.last
            /\ _prop_algorithm' = r.algo
            /\ _attr_extra_state_attributes' = r.attrs
            /\ outcome' = r.outcome
            /\ UNCHANGED << _hvac_mode, _auto_regulation_dpercent,
                            _auto_regulation_period_min, now, _target_temp,
                            _cur_temp, _cur_ext_temp, _total_energy,
                            mean_cycle_power, energy_history >>

NextAny ==
    \/ RecalculateAny
    \/ SetHvacMode
    \/ SetNow

\* the strategy does not read the temperatures: they stay unknown
InitAny ==
    /\ Init
    /\ _target_temp = 20
    /\ _cur_temp = None
    /\ _cur_ext_temp = None

SpecAny == InitAny /\ [][NextAny]_vars

-----------------------------------------------------------------------------
(* The thermostat with its energy counter: the power of the cycle varies    *)
(* and a total may have been restored; the temperatures stay as they are.   *)

\* power_manager gives another mean_cycle_power
SetMeanCyclePower ==
    /\ \E p \in MeanCyclePowers \ {mean_cycle_power} : mean_cycle_power' = p
    /\ energy_history' = [ energy_history EXCEPT !.steady = FALSE ]
    /\ outcome' = "none"
    /\ UNCHANGED << _hvac_mode, _valve_open_percent,
                    _last_calculation_timestamp, _auto_regulation_dpercent,
                    _auto_regulation_period_min, now, _target_temp,
                    _cur_temp, _cur_ext_temp, _prop_algorithm,
                    _attr_extra_state_attributes, _total_energy >>

NextEnergy ==
    \/ IncrementeEnergy
    \/ SetMeanCyclePower
    \/ Recalculate
    \/ SetHvacMode
    \/ SetNow

\* a room 5 % below its setpoint, no dead-band; a total restored or not
InitEnergy ==
    /\ InitValve
    /\ _auto_regulation_dpercent = 0
    /\ _target_temp = 20
    /\ _cur_temp = Some(10)
    /\ _cur_ext_temp = None
    /\ _total_energy \in RestoredEnergies
    /\ mean_cycle_power \in MeanCyclePowers
    /\ energy_history = EnergyHistoryInit(_total_energy)

SpecEnergy == InitEnergy /\ [][NextEnergy]_vars

-----------------------------------------------------------------------------
(* The thermostat built from any configuration entry: post_init takes the   *)
(* two thresholds as the entry gives them.                                   *)

\* what a configuration entry may give for the dead-band (half-percents):
\* nothing, values of 0..100 % and values outside
ConfigDPercents == {None} \cup {Some(d) : d \in DPercents \cup {-10, One + 10}}

\* what a configuration entry may give for the minimum period (minutes)
ConfigPeriodMins == {None} \cup {Some(p) : p \in PeriodMins \cup {-1}}

\* config_entry.get(key) if config_entry.get(key) is not None else default
configured(given, default) == IF given = None THEN default ELSE given[1]

\* a room 5 % below its setpoint
InitConfig ==
    /\ _hvac_mode = HVACMode_None
    /\ _valve_open_percent = 0
    /\ _last_calculation_timestamp = None
    /\ \E given \in ConfigDPercents :
          _auto_regulation_dpercent = configured(given, 0)
    /\ \E given \in ConfigPeriodMins :
          _auto_regulation_period_min = configured(given, 0)
    /\ now \in Times
    /\ _target_temp = 20
    /\ _cur_temp = Some(10)
    /\ _cur_ext_temp = None
    /\ _prop_algorithm = PropAlgorithmInit
    /\ _attr_extra_state_attributes = None
    /\ outcome = "none"
    /\ _total_energy = None
    /\ mean_cycle_power = None
    /\ energy_history = EnergyHistoryInit(None)

NextConfig ==
    \/ Recalculate
    \/ SetHvacMode
    \/ SetNow
    \/ IncrementeEnergy

SpecConfig == InitConfig /\ [][NextConfig]_vars

-----------------------------------------------------------------------------
(* The thermostat under constant inputs: after one earlier call, made at    *)
(* time 0 under the inputs of that time, the mode, the setpoint and the     *)
(* readings no longer change and the clock only moves forward.              *)

\* the thermostat as constructed, at time 0 in the mode m
Constructed(m, d, p) ==
    [ mode |-> m, committed |-> 0, last |-> None, now |-> 0,
      dpercent |-> d, period_min |-> p,
      algo |-> PropAlgorithmInit, attrs |-> None ]

\* the state one call at time 0 has left, then the inputs of the steady
\* phase at a later time (the mode None exists only before the first mode)
InitSteady ==
    \E d \in DPercents, p \in PeriodMins, m \in HvacModes,
       t \in TargetTemps, c \in CurTemps :
        LET first == recalculate(Constructed(m, d, p),
                                 calculate(t, c, None, mode_or_off(m)))
        IN  /\ _auto_regulation_dpercent = d
            /\ _auto_regulation_period_min = p
            /\ _valve_open_percent = first.committed
            /\ _last_calculation_timestamp = first.last
            /\ _prop_algorithm = first.algo
            /\ _attr_extra_state_attributes = first.attrs
            /\ _hvac_mode \in HvacModes
            /\ _hvac_mode = HVACMode_None => m = HVACMode_None
            /\ _target_temp \in TargetTemps
            /\ _cur_temp \in CurTemps
            /\ _cur_ext_temp = None
            /\ now \in Times \ {0}
            /\ outcome = "none"
            /\ _total_energy = None
            /\ mean_cycle_power = None
            /\ energy_history = EnergyHistoryInit(None)

\* the clock moves forward
SetNowLater ==
    /\ SetNow
    /\ now' >= now

NextSteady ==
    \/ Recalculate
    \/ SetNowLater
    \/ IncrementeEnergy

SpecSteady == InitSteady /\ [][NextSteady]_vars

-----------------------------------------------------------------------------
(* Properties *)

\* the step is a call of recalculate (every other operation sets another
\* outcome)
IsRecalculate == outcome' \in RecalculateOutcomes

\* C1: whatever the algorithm outputs (on_percent below 0 or above 1
\* included) and whatever recalculate calls and mode changes came before,
\* the committed percent, the value the valve_open_percent accessor returns
\* and the published one are integers in 0..100.
C1_PercentInRange ==
    /\ _valve_open_percent \in 0..PercentScale
    /\ valve_open_percent(_hvac_mode, _valve_open_percent) \in 0..PercentScale
    /\ _attr_extra_state_attributes # None =>
          _attr_extra_state_attributes[1].valve_open_percent \in 0..PercentScale

\* an output above 1 was accepted and committed as 100
C1_Witness ==
    /\ outcome = "accepted"
    /\ _prop_algorithm.on_percent > One
    /\ _valve_open_percent = PercentScale
    /\ _hvac_mode = HVACMode_HEAT

\* C2: in the OFF mode the accessor returns 0 whatever is committed, from
\* the very state where the mode became OFF; in every other mode it returns
\* the committed value.
C2_AccessorZeroWhenOff ==
    /\ _hvac_mode = HVACMode_OFF =>
          valve_open_percent(_hvac_mode, _valve_open_percent) = 0
    /\ _hvac_mode # HVACMode_OFF =>
          valve_open_percent(_hvac_mode, _valve_open_percent)
              = _valve_open_percent
    /\ (outcome = "accepted" /\ _hvac_mode = HVACMode_OFF) =>
          _attr_extra_state_attributes[1].valve_open_percent = 0

\* the mode has just become OFF over an open valve, no recalculate since
C2_Witness ==
    /\ _hvac_mode = HVACMode_OFF
    /\ _valve_open_percent > 0
    /\ outcome = "none"

\* C3 as stated: the value committed before the mode went OFF is kept
\* through every operation made while OFF, recalculate calls included, and
\* through the return to a non-OFF mode, until a recalculate made in a
\* non-OFF mode is accepted.  Since the mode may leave OFF at any moment,
\* this says that the committed value changes only in an accepted
\* recalculate made in a non-OFF mode.
C3_Original ==
    [][ _valve_open_percent' # _valve_open_percent =>
            (outcome' = "accepted" /\ _hvac_mode # HVACMode_OFF) ]_vars

\* C3 amended: a mode change never touches the committed value, and while
\* the mode is OFF only an accepted recalculate changes it; so on the return
\* to a non-OFF mode the accessor returns the value committed before OFF
\* unless a recalculate was accepted while OFF.
C3_PreservedUnlessAcceptedWhileOff ==
    [][ /\ _hvac_mode' # _hvac_mode =>
              /\ _valve_open_percent' = _valve_open_percent
              /\ _last_calculation_timestamp' = _last_calculation_timestamp
        /\ (_hvac_mode = HVACMode_OFF /\ outcome' # "accepted") =>
              _valve_open_percent' = _valve_open_percent
        /\ (_hvac_mode = HVACMode_OFF /\ _hvac_mode' # HVACMode_OFF) =>
              valve_open_percent(_hvac_mode', _valve_open_percent')
                  = _valve_open_percent ]_vars

\* a recalculate was rejected while OFF over an open valve
C3_Witness ==
    /\ _hvac_mode = HVACMode_OFF
    /\ outcome = "too_soon"
    /\ _valve_open_percent > 0

\* C4: when a timestamp exists and less than auto_regulation_period_min
\* minutes have elapsed since it, recalculate leaves the committed percent
\* and the timestamp unchanged for every candidate (a closing candidate of 0
\* included); when the elapsed time reaches the period, or no timestamp
\* exists, the call is not rejected as too soon.
C4_TemporalDamping ==
    [][ IsRecalculate =>
          IF /\ _last_calculation_timestamp # None
             /\ now - _last_calculation_timestamp[1]
                    < _auto_regulation_period_min * SecondsPerMinute
          THEN /\ outcome' = "too_soon"
               /\ _valve_open_percent' = _valve_open_percent
               /\ _last_calculation_timestamp' = _last_calculation_timestamp
          ELSE outcome' # "too_soon" ]_vars

\* a call whose candidate 0 would close an open valve was rejected as too
\* soon, half a minute after the last acceptance
C4_Witness ==
    /\ outcome = "too_soon"
    /\ _hvac_mode = HVACMode_HEAT
    /\ _valve_open_percent > 0
    /\ now - _last_calculation_timestamp[1] = TimeStep
    /\ forced(new_valve_percent(
                  calculate(_target_temp, _cur_temp, _cur_ext_temp,
                            _hvac_mode).on_percent),
              _auto_regulation_dpercent) = 0

\* the candidate of the call just made: the percent of the algorithm's
\* output after the below-threshold forcing
Candidate ==
    forced(new_valve_percent(_prop_algorithm'.on_percent),
           _auto_regulation_dpercent)

\* the call just made ran in a non-OFF mode, was not too soon and had a
\* candidate above 0
PastTimeCheckWithPositiveCandidate ==
    /\ IsRecalculate
    /\ outcome' # "too_soon"
    /\ _hvac_mode # HVACMode_OFF
    /\ Candidate > 0

\* C5 as stated: in a non-OFF mode, a call that is not too soon with a
\* candidate c > 0 is rejected exactly when -d <= c - committed < d and is
\* accepted otherwise (d counted in half-percents, hence the factor 2).
C5_Original ==
    [][ PastTimeCheckWithPositiveCandidate =>
          ( outcome' # "accepted" <=>
              /\ -1 * _auto_regulation_dpercent
                     <= 2 * (Candidate - _valve_open_percent)
              /\ 2 * (Candidate - _valve_open_percent)
                     < _auto_regulation_dpercent ) ]_vars

\* C5 amended: such a call is rejected exactly when -d <= c - committed < d
\* or c = committed (a case the band leaves out only when d = 0), and is
\* accepted otherwise, committing c.  For d > 0 the band is asymmetric: a
\* decrease of exactly d is rejected, an increase of exactly d accepted.
\* With d = 5 and committed = 40 every candidate in 35..44 is rejected and
\* 45 and 46 are accepted.
C5_DeadBand ==
    [][ PastTimeCheckWithPositiveCandidate =>
          /\ outcome' # "accepted" <=>
                \/ /\ -1 * _auto_regulation_dpercent
                          <= 2 * (Candidate - _valve_open_percent)
                   /\ 2 * (Candidate - _valve_open_percent)
                          < _auto_regulation_dpercent
                \/ Candidate = _valve_open_percent
          /\ outcome' = "accepted" => _valve_open_percent' = Candidate
          /\ outcome' # "accepted" =>
                _valve_open_percent' = _valve_open_percent
          /\ (/\ _auto_regulation_dpercent > 0
              /\ 2 * (_valve_open_percent - Candidate)
                     = _auto_regulation_dpercent) => outcome' = "dead_band"
          /\ (/\ _auto_regulation_dpercent > 0
              /\ 2 * (Candidate - _valve_open_percent)
                     = _auto_regulation_dpercent) => outcome' = "accepted"
          /\ (_auto_regulation_dpercent = 10 /\ _valve_open_percent = 40) =>
                /\ Candidate \in 35..44 => outcome' # "accepted"
                /\ Candidate \in 45..46 => outcome' = "accepted" ]_vars

\* with d = 5 and 40 committed, a candidate of 35 (a decrease of exactly d)
\* was rejected by the dead-band
C5_Witness ==
    /\ outcome = "dead_band"
    /\ _hvac_mode = HVACMode_HEAT
    /\ _auto_regulation_dpercent = 10
    /\ _valve_open_percent = 40
    /\ new_valve_percent(_prop_algorithm.on_percent) = 35

\* the percent the algorithm asks for on the current inputs, before the
\* below-threshold forcing
Demand ==
    new_valve_percent(
        calculate(_target_temp, _cur_temp, _cur_ext_temp,
                  mode_or_off(_hvac_mode)).on_percent)

\* the valve is open although the demand is below the threshold
OpenBelowThreshold ==
    /\ _valve_open_percent # 0
    /\ 2 * Demand < _auto_regulation_dpercent

\* C6: a percent strictly below auto_regulation_dpercent is replaced by 0
\* before the dead-band comparison, and a candidate of 0 is never rejected
\* by the dead-band: a call that is not too soon, made over a non-zero
\* committed value with a percent below the threshold, commits 0.  So the
\* valve cannot stay open for ever under a demand that stays below the
\* threshold when calls that are not too soon keep being made.
C6_FailToClosed ==
    /\ [][ (IsRecalculate /\ outcome' # "too_soon") =>
             /\ Candidate = 0 => outcome' # "dead_band"
             /\ OpenBelowThreshold =>
                   /\ outcome' = "accepted"
                   /\ _valve_open_percent' = 0
                   /\ _last_calculation_timestamp' = Some(now) ]_vars
    /\ ( []<><< IsRecalculate /\ outcome' # "too_soon" >>_vars
            => []<>(~OpenBelowThreshold) )

\* a demand above 0 but below the threshold has just closed the valve
C6_Witness ==
    /\ outcome = "accepted"
    /\ _hvac_mode = HVACMode_HEAT
    /\ _valve_open_percent = 0
    /\ Demand > 0
    /\ 2 * Demand < _auto_regulation_dpercent

\* C7 as stated: with last_calculation_timestamp unset, recalculate accepts
\* the candidate whatever it is: it commits it and sets the timestamp to
\* now.
C7_Original ==
    [][ (IsRecalculate /\ _last_calculation_timestamp = None) =>
          /\ outcome' = "accepted"
          /\ _valve_open_percent' = Candidate
          /\ _last_calculation_timestamp' = Some(now) ]_vars

\* C7 amended: with last_calculation_timestamp unset, recalculate is
\* rejected neither as too soon nor by the dead-band, whatever the
\* thresholds are, and the committed percent equals the candidate after the
\* call; a candidate other than 0 is accepted and sets the timestamp to now,
\* while a candidate of 0 equals the initial committed 0, is a no-change and
\* leaves the timestamp unset.
C7_FirstCalculation ==
    [][ (IsRecalculate /\ _last_calculation_timestamp = None) =>
          /\ outcome' \in {"accepted", "no_change"}
          /\ _valve_open_percent' = Candidate
          /\ Candidate # 0 =>
                /\ outcome' = "accepted"
                /\ _last_calculation_timestamp' = Some(now)
          /\ Candidate = 0 =>
                /\ outcome' = "no_change"
                /\ _last_calculation_timestamp' = None ]_vars

\* the first accepted calculation: a candidate equal to the threshold,
\* under a minimum period, at a time later than 0
C7_Witness ==
    /\ outcome = "accepted"
    /\ _auto_regulation_dpercent = 10
    /\ _auto_regulation_period_min = 1
    /\ _valve_open_percent = 5
    /\ now = TimeStep
    /\ _last_calculation_timestamp = Some(now)
    /\ _attr_extra_state_attributes[1].valve_open_percent = 5

\* C8: a recalculate made right after another one, with the same target,
\* temperatures, mode and now (no other operation in between), leaves the
\* committed percent and last_calculation_timestamp as the first call left
\* them, for every policy.
C8_Idempotent ==
    [][ (outcome \in RecalculateOutcomes /\ IsRecalculate) =>
          /\ _valve_open_percent' = _valve_open_percent
          /\ _last_calculation_timestamp' = _last_calculation_timestamp
          /\ _attr_extra_state_attributes' = _attr_extra_state_attributes
          /\ outcome' # "accepted" ]_vars

\* the second of two calls on the same inputs, made without a minimum
\* period or a dead-band right after the first was accepted over an open
\* valve: rejected as no change
C8_Witness ==
    /\ outcome = "no_change"
    /\ _auto_regulation_period_min = 0
    /\ _auto_regulation_dpercent = 0
    /\ _hvac_mode = HVACMode_HEAT
    /\ _last_calculation_timestamp = Some(now)
    /\ _valve_open_percent = 8
    /\ _valve_open_percent = Demand

\* C9: a recalculate either commits in full or does nothing: when it is
\* accepted it changes the committed percent, sets the timestamp to now and
\* publishes the new state; when it is rejected (too soon, dead-band, no
\* change) it changes neither the committed percent nor the timestamp and
\* publishes nothing.  Neither is ever updated without the other.
C9_CommitOrNoOp ==
    [][ IsRecalculate =>
          IF outcome' = "accepted"
          THEN /\ _valve_open_percent' # _valve_open_percent
               /\ _valve_open_percent' = Candidate
               /\ _last_calculation_timestamp' = Some(now)
               /\ _attr_extra_state_attributes' =
                      Some([ valve_open_percent |->
                                 IF _hvac_mode = HVACMode_OFF
                                 THEN 0 ELSE _valve_open_percent',
                             on_percent |-> _prop_algorithm'.on_percent,
                             last_calculation_timestamp |-> Some(now) ])
          ELSE /\ _valve_open_percent' = _valve_open_percent
               /\ _last_calculation_timestamp'
                      = _last_calculation_timestamp
               /\ _attr_extra_state_attributes'
                      = _attr_extra_state_attributes ]_vars

\* a call rejected by the dead-band at a time later than the timestamp,
\* after the algorithm has run on new inputs
C9_Witness ==
    /\ outcome = "dead_band"
    /\ _last_calculation_timestamp # None
    /\ _last_calculation_timestamp[1] < now
    /\ _attr_extra_state_attributes[1].on_percent # _prop_algorithm.on_percent
    /\ Demand # _valve_open_percent

\* C10: last_calculation_timestamp is unset until the first accepted
\* recalculate (what is published before it shows it unset), then equals the
\* now of the latest accepted recalculate: an accepted call sets it to now, a rejected
\* call and every other operation leave it alone.  So an accepted call is
\* at least auto_regulation_period_min minutes after the one before it.
C10_Timestamp ==
    /\ []( /\ _attr_extra_state_attributes # None =>
                 _attr_extra_state_attributes[1].last_calculation_timestamp
                     = _last_calculation_timestamp
           /\ outcome = "accepted" =>
                 _last_calculation_timestamp = Some(now) )
    /\ [][ /\ outcome' = "accepted" =>
                 /\ _last_calculation_timestamp' = Some(now)
                 /\ _last_calculation_timestamp # None =>
                       now - _last_calculation_timestamp[1]
                           >= _auto_regulation_period_min * SecondsPerMinute
           /\ outcome' # "accepted" =>
                 _last_calculation_timestamp' = _last_calculation_timestamp
       ]_vars

\* under a minimum period of one minute, an accepted call that closed the
\* valve, so one that came after an earlier accepted call
C10_Witness ==
    /\ outcome = "accepted"
    /\ _auto_regulation_period_min = 1
    /\ _valve_open_percent = 0
    /\ _hvac_mode = HVACMode_HEAT
    /\ _last_calculation_timestamp = Some(now)

\* Python's round() stated by what it returns: v is the integer nearest to
\* h half-units, the even one of the two when h is half-way between them
IsRounded(v, h) ==
    /\ 2 * v - h \in {-1, 0, 1}
    /\ 2 * v # h => v % 2 = 0

\* C11: with both thresholds 0 (their value when the configuration gives
\* none) a recalculate made at a now not before the last timestamp is
\* rejected neither as too soon nor by the dead-band, and after it the
\* committed percent is round(100 * on_percent clamped to [0, 1]) of the
\* output the algorithm gave in that call.
C11_NoDampingWhenDisabled ==
    [][ ( /\ IsRecalculate
          /\ _auto_regulation_dpercent = 0
          /\ _auto_regulation_period_min = 0
          /\ _last_calculation_timestamp # None =>
                now >= _last_calculation_timestamp[1] ) =>
          /\ outcome' \in {"accepted", "no_change"}
          /\ _valve_open_percent' \in 0..PercentScale
          /\ IsRounded(_valve_open_percent',
                       IF _prop_algorithm'.on_percent < 0 THEN 0
                       ELSE IF _prop_algorithm'.on_percent > One THEN One
                       ELSE _prop_algorithm'.on_percent) ]_vars

\* without damping, an output of 2.5 % was accepted and committed as 2
C11_Witness ==
    /\ outcome = "accepted"
    /\ _hvac_mode = HVACMode_HEAT
    /\ _auto_regulation_dpercent = 0
    /\ _auto_regulation_period_min = 0
    /\ _prop_algorithm.on_percent = 5
    /\ _valve_open_percent = 2
    /\ _attr_extra_state_attributes[1].valve_open_percent = 2
    /\ now = MaxNow * TimeStep

\* the energy of one cycle in watt-minutes, 60 times
\* mean_cycle_power * cycle_minutes / 60 (0 when the power is unknown)
Increment ==
    IF mean_cycle_power = None THEN 0 ELSE mean_cycle_power[1] * cycle_min

\* a total in watt-minutes is e to two decimals, e given in hundredths:
\* | total / 60 - e / 100 | <= 0.005
ToTwoDecimals(total, e) ==
    /\ 100 * total[1] - 60 * e <= 30
    /\ 60 * e - 100 * total[1] <= 30

\* the thermostat started with no total and its power has not changed since
FromUnsetAtConstantPower ==
    /\ energy_history.restored = None
    /\ energy_history.steady

\* C12: a tick outside OFF adds mean_cycle_power * cycle_minutes / 60 when
\* the power is known and 0 when it is unknown; an unset total becomes that
\* increment, a set one grows by it.  After n such ticks at a constant power
\* from an unset total the total is n increments: with 1000 W and 10 minutes
\* 166.67 after one tick and 333.33 after two, to two decimals.
C12_EnergyAccumulation ==
    /\ [][ outcome' = "energy_added" =>
              /\ _total_energy' # None
              /\ _total_energy = None => _total_energy'[1] = Increment
              /\ _total_energy # None =>
                    _total_energy'[1] = _total_energy[1] + Increment ]_vars
    /\ []( (FromUnsetAtConstantPower /\ energy_history.ticks > 0) =>
              /\ _total_energy = Some(energy_history.ticks * Increment)
              /\ mean_cycle_power = Some(1000) =>
                    /\ energy_history.ticks = 1 =>
                          ToTwoDecimals(_total_energy, 16667)
                    /\ energy_history.ticks = 2 =>
                          ToTwoDecimals(_total_energy, 33333) )

\* two ticks in the heat mode at 1000 W from an unset total
C12_Witness ==
    /\ outcome = "energy_added"
    /\ _hvac_mode = HVACMode_HEAT
    /\ FromUnsetAtConstantPower
    /\ energy_history.ticks = 2
    /\ mean_cycle_power = Some(1000)
    /\ _total_energy = Some(2 * 1000 * cycle_min)

\* the step is a call of incremente_energy
IsTick == outcome' \in EnergyOutcomes

\* C13: a tick in the OFF mode changes nothing: total_energy keeps its value
\* or stays unset, the committed percent, the timestamp and the published
\* attributes stay; a tick in any mode leaves the valve state alone (mode,
\* committed percent, accessor, timestamp, thresholds, algorithm outputs).
C13_TickFrame ==
    [][ IsTick =>
          /\ _hvac_mode = HVACMode_OFF =>
                /\ _total_energy' = _total_energy
                /\ _attr_extra_state_attributes' = _attr_extra_state_attributes
          /\ _hvac_mode' = _hvac_mode
          /\ _valve_open_percent' = _valve_open_percent
          /\ valve_open_percent(_hvac_mode', _valve_open_percent')
                = valve_open_percent(_hvac_mode, _valve_open_percent)
          /\ _last_calculation_timestamp' = _last_calculation_timestamp
          /\ _auto_regulation_dpercent' = _auto_regulation_dpercent
          /\ _auto_regulation_period_min' = _auto_regulation_period_min
          /\ _prop_algorithm' = _prop_algorithm
          /\ now' = now ]_vars

\* a tick in OFF at 1000 W, after one cycle was counted and the valve was
\* opened: the total and the valve are as they were
C13_Witness ==
    /\ outcome = "energy_off"
    /\ _hvac_mode = HVACMode_OFF
    /\ mean_cycle_power = Some(1000)
    /\ _total_energy = Some(1000 * cycle_min)
    /\ _valve_open_percent = 5
    /\ _last_calculation_timestamp # None

\* C14: over every operation (ticks, mode changes, recalculate, the clock, a
\* new power) a set total_energy stays set and never decreases; a total
\* restored before the first tick is never undercut, and the first tick
\* outside OFF adds its increment to it.
C14_EnergyMonotonic ==
    /\ [][ /\ _total_energy # None =>
                 /\ _total_energy' # None
                 /\ _total_energy'[1] >= _total_energy[1]
           /\ ( /\ outcome' = "energy_added"
                /\ energy_history.restored # None
                /\ energy_history.ticks = 0 ) =>
                 _total_energy' =
                     Some(energy_history.restored[1] + Increment) ]_vars
    /\ []( energy_history.restored # None =>
              /\ _total_energy # None
              /\ _total_energy[1] >= energy_history.restored[1]
              /\ energy_history.ticks = 0 =>
                    _total_energy = energy_history.restored )

\* a restored total after a tick at 1000 W and a second tick at an unknown
\* power
C14_Witness ==
    /\ outcome = "energy_added"
    /\ energy_history.restored = Some(4000)
    /\ energy_history.ticks = 2
    /\ mean_cycle_power = None
    /\ _total_energy = Some(4000 + 1000 * cycle_min)

\* C15: a controller never runs under an invalid policy (construction with
\* a non-positive cycle length, a dead-band outside 0..100 % or a negative
\* minimum period ends in a configuration error): in every state the cycle
\* length is positive, the dead-band is within 0..100 % and the minimum
\* period is not negative.
C15_InvalidConfigurationRejected ==
    /\ cycle_min > 0
    /\ _auto_regulation_dpercent \in 0..One
    /\ _auto_regulation_period_min >= 0

\* C16: from the initial state on, the committed percent is 0 or at least
\* auto_regulation_dpercent: never strictly between 0 and the threshold.
C16_ClosedOrAtLeastThreshold ==
    \/ _valve_open_percent = 0
    \/ 2 * _valve_open_percent >= _auto_regulation_dpercent

\* under a threshold of 5 %, an open valve closed by an accepted call whose
\* demand was 4.5 %
C16_Witness ==
    /\ outcome = "accepted"
    /\ _hvac_mode = HVACMode_HEAT
    /\ _auto_regulation_dpercent = 10
    /\ _prop_algorithm.on_percent = 9
    /\ _valve_open_percent = 0
    /\ _last_calculation_timestamp = Some(now)

\* C17: right after a recalculate made in a non-OFF mode and not rejected
\* as too soon, the committed percent is the candidate of that call, or the
\* candidate c is positive and -d <= c - committed < d (d in half-percents,
\* hence the factor 2).
C17_TrackingBound ==
    [][ ( /\ IsRecalculate
          /\ outcome' # "too_soon"
          /\ _hvac_mode # HVACMode_OFF ) =>
            \/ _valve_open_percent' = Candidate
            \/ /\ Candidate > 0
               /\ -1 * _auto_regulation_dpercent
                      <= 2 * (Candidate - _valve_open_percent')
               /\ 2 * (Candidate - _valve_open_percent')
                      < _auto_regulation_dpercent ]_vars

\* with d = 5 and 40 committed, a demand of 43 % held back by the dead-band:
\* the valve stays 3 below its candidate
C17_Witness ==
    /\ outcome = "dead_band"
    /\ _hvac_mode = HVACMode_HEAT
    /\ _auto_regulation_dpercent = 10
    /\ _prop_algorithm.on_percent = 86
    /\ _valve_open_percent = 40

\* a call of the steady phase has been accepted (the earlier call was made
\* at time 0, the steady phase starts later)
Settled ==
    /\ _last_calculation_timestamp # None
    /\ _last_calculation_timestamp[1] >= TimeStep

\* C18: while the mode, the setpoint and the readings stay as they are and
\* the clock does not go back, at most one recalculate is accepted: once
\* one has been, no later call is accepted and the committed percent and
\* the timestamp never change again.
C18_Convergence ==
    [][ /\ Settled =>
             /\ outcome' # "accepted"
             /\ _valve_open_percent' = _valve_open_percent
             /\ _last_calculation_timestamp' = _last_calculation_timestamp
        /\ outcome' = "accepted" =>
             /\ ~Settled
             /\ _valve_open_percent' # _valve_open_percent ]_vars

\* a call made after the accepted one of the steady phase, at a later time
\* and past the minimum period, finds no change
C18_Witness ==
    /\ Settled
    /\ outcome = "no_change"
    /\ _hvac_mode = HVACMode_HEAT
    /\ _valve_open_percent = 8
    /\ now >= _last_calculation_timestamp[1]
                + _auto_regulation_period_min * SecondsPerMinute
    /\ now > _last_calculation_timestamp[1]

\* C19: from the initial state on, while last_calculation_timestamp is unset
\* the committed percent is 0: a committed value other than 0 has the
\* timestamp of its acceptance.
C19_UnsetTimestampMeansClosed ==
    _last_calculation_timestamp = None => _valve_open_percent = 0

\* a first call in the heat mode whose demand of 4.5 % is below the
\* threshold of 5 %: no change, the timestamp stays unset
C19_Witness ==
    /\ outcome = "no_change"
    /\ _hvac_mode = HVACMode_HEAT
    /\ _auto_regulation_dpercent = 10
    /\ _prop_algorithm.on_percent = 9
    /\ _last_calculation_timestamp = None
    /\ _valve_open_percent = 0

\* what the algorithm gives for the inputs as they are now
Calculated ==
    calculate(_target_temp, _cur_temp, _cur_ext_temp, mode_or_off(_hvac_mode))

\* C20: a recalculate made less than the minimum period after the last
\* acceptance returns as too soon whatever the candidate would be (forced
\* to 0, inside the dead-band or not), and a call that returns as too soon
\* has not run the algorithm: on_percent, calculated_on_percent, on_time_sec
\* and off_time_sec are as before.  Every other call has run it.
C20_TimeCheckFirst ==
    [][ IsRecalculate =>
          /\ ( /\ _last_calculation_timestamp # None
               /\ now - _last_calculation_timestamp[1]
                      < _auto_regulation_period_min * SecondsPerMinute )
                 => outcome' = "too_soon"
          /\ outcome' = "too_soon" =>
                /\ _prop_algorithm'.on_percent = _prop_algorithm.on_percent
                /\ _prop_algorithm'.calculated_on_percent
                      = _prop_algorithm.calculated_on_percent
                /\ _prop_algorithm'.on_time_sec = _prop_algorithm.on_time_sec
                /\ _prop_algorithm'.off_time_sec = _prop_algorithm.off_time_sec
          /\ outcome' # "too_soon" => _prop_algorithm' = Calculated ]_vars

\* a call returned as too soon in the heat mode, 30 s after an acceptance,
\* while the readings ask for another duty than the one kept: the outputs
\* are those of the accepted call
C20_Witness ==
    /\ outcome = "too_soon"
    /\ _hvac_mode = HVACMode_HEAT
    /\ _auto_regulation_period_min = 1
    /\ _last_calculation_timestamp = Some(0)
    /\ now = TimeStep
    /\ _prop_algorithm.on_percent = 10
    /\ Calculated.on_percent = 20
    /\ _attr_extra_state_attributes[1].on_percent = 10

====
